---- MODULE Spec2Model ----
(***************************************************************************)
(* Model of the observability core of leptonyu/fall: the span-aware log    *)
(* layer (fall-log), the B3 header codec, the request middleware and the   *)
(* outbound client decorator (fall-web).                                   *)
(*                                                                         *)
(* Conventions.  A string is a sequence of one-character strings.  A u64   *)
(* is the sequence of its 16 nibbles, most significant first, which is an  *)
(* exact representation (TLC integers are 32 bits wide).  An Option is a   *)
(* record [some |-> FALSE] or [some |-> TRUE, val |-> v].                  *)
(***************************************************************************)
EXTENDS Integers, Sequences, FiniteSets, TLC

\* ------------------------------------------------------------------------
\* Generic helpers
\* ------------------------------------------------------------------------
None == [some |-> FALSE]

Some(v) == [some |-> TRUE, val |-> v]

Range(s) == {s[k] : k \in DOMAIN s}

Repeat(c, n) == [k \in 1..n |-> c]

RECURSIVE Concat(_)
Concat(ss) == IF ss = <<>> THEN <<>> ELSE Head(ss) \o Concat(Tail(ss))

\* ------------------------------------------------------------------------
\* u64 and its hexadecimal rendering and parsing
\* ------------------------------------------------------------------------
U64Nibbles == 16

HexWidth == 16

HexChars == <<"0", "1", "2", "3", "4", "5", "6", "7",
              "8", "9", "a", "b", "c", "d", "e", "f">>

UpperHexChars == <<"0", "1", "2", "3", "4", "5", "6", "7",
                   "8", "9", "A", "B", "C", "D", "E", "F">>

\* the u64 whose low-order nibbles are ds
U64(ds) == Repeat(0, U64Nibbles - Len(ds)) \o ds

RECURSIVE StripZeros(_)
StripZeros(ds) ==
    IF Len(ds) > 1 /\ Head(ds) = 0 THEN StripZeros(Tail(ds)) ELSE ds

\* "{:x}": the significant digits, lowercase
LowerHex(i) == [k \in 1..Len(StripZeros(i)) |-> HexChars[StripZeros(i)[k] + 1]]

\* a width in a format spec pads on the left and never truncates
PadLeft(s, w, c) == IF Len(s) >= w THEN s ELSE Repeat(c, w - Len(s)) \o s

\* a rendering without the zero padding
u64_hexUnpadded(i) == LowerHex(i)

\* fn u64_hex: format!("{:016x}", i)
u64_hex(i) == PadLeft(LowerHex(i), HexWidth, "0")

\* char::to_digit(16): the digit's value, or -1
DigitVal(c) ==
    IF \E k \in 1..16 : HexChars[k] = c
    THEN (CHOOSE k \in 1..16 : HexChars[k] = c) - 1
    ELSE IF \E k \in 1..16 : UpperHexChars[k] = c
         THEN (CHOOSE k \in 1..16 : UpperHexChars[k] = c) - 1
         ELSE -1

\* the digit loop of from_str_radix: result = result.checked_mul(16)?
\* .checked_add(digit)?; the multiplication overflows exactly when the top
\* nibble is set
RECURSIVE ParseDigits(_, _)
ParseDigits(acc, s) ==
    IF s = <<>> THEN Some(acc)
    ELSE IF DigitVal(Head(s)) = -1 THEN None
    ELSE IF Head(acc) # 0 THEN None
    ELSE ParseDigits(Tail(acc) \o <<DigitVal(Head(s))>>, Tail(s))

\* u64::from_str_radix(s, 16): empty input is an error, one leading '+' is
\* accepted, '-' is an invalid digit for an unsigned type
from_str_radix(s) ==
    IF s = <<>> THEN None
    ELSE IF Head(s) = "+"
         THEN IF Tail(s) = <<>> THEN None ELSE ParseDigits(U64(<<>>), Tail(s))
         ELSE ParseDigits(U64(<<>>), s)

\* ------------------------------------------------------------------------
\* HTTP headers: an ordered multimap, a sequence of <<name, value>>
\* ------------------------------------------------------------------------
NonAscii == "<80>"

\* HeaderMap::get: the first value stored under the name
HeaderGet(h, name) ==
    IF \E k \in DOMAIN h : h[k][1] = name
    THEN Some(h[CHOOSE k \in DOMAIN h :
                   /\ h[k][1] = name
                   /\ \A j \in DOMAIN h : h[j][1] = name => k <= j][2])
    ELSE None

\* HeaderValue::to_str: fails on a byte that is not visible ASCII
to_str(v) == IF NonAscii \in Range(v) THEN None ELSE Some(v)

\* fn read_header_as_u64
read_header_as_u64(name, req) ==
    LET r == HeaderGet(req, name)
        t == IF r.some THEN to_str(r.val) ELSE None
    IN  IF t.some THEN from_str_radix(t.val) ELSE None

\* ------------------------------------------------------------------------
\* OpenTrace
\* ------------------------------------------------------------------------
\* OpenTrace::new
OpenTraceNew(trace_id, span_id, parent_span_id) ==
    [trace_id       |-> u64_hex(trace_id),
     span_id        |-> u64_hex(span_id),
     parent_span_id |-> IF parent_span_id.some
                        THEN u64_hex(parent_span_id.val) ELSE <<>>]

\* impl Default for OpenTrace; rnd is the value rand_u64() returns
OpenTraceDefault(rnd) ==
    [trace_id |-> u64_hex(rnd), span_id |-> u64_hex(rnd), parent_span_id |-> <<>>]

\* from_req with a span id that falls back to zero
from_reqSpanZero(req, rnd) ==
    LET th       == read_header_as_u64("X-B3-TraceId", req)
        trace_id == IF th.some THEN th.val ELSE rnd
        sh       == read_header_as_u64("X-B3-SpanId", req)
        span_id  == IF sh.some THEN sh.val ELSE U64(<<>>)
    IN  OpenTraceNew(trace_id, span_id, read_header_as_u64("X-B3-ParentSpanId", req))

\* fn from_req; rnd is the value rand::random::<u64>() returns when called
from_req(req, rnd) ==
    LET th       == read_header_as_u64("X-B3-TraceId", req)
        trace_id == IF th.some THEN th.val ELSE rnd
        sh       == read_header_as_u64("X-B3-SpanId", req)
        span_id  == IF sh.some THEN sh.val ELSE trace_id
    IN  OpenTraceNew(trace_id, span_id, read_header_as_u64("X-B3-ParentSpanId", req))

\* ------------------------------------------------------------------------
\* ExtendedLog: the per-span field bag
\* ------------------------------------------------------------------------
TRACE_ID == "trace_id"

SPAN_ID == "span_id"

PARENT_SPAN_ID == "parent_span_id"

PADDING == "padding"

Put(d, k, v) == [n \in (DOMAIN d) \cup {k} |-> IF n = k THEN v ELSE d[n]]

\* impl Default for ExtendedLog
ExtendedLogDefault ==
    [data |-> <<>>, keys |-> <<TRACE_ID, SPAN_ID, PARENT_SPAN_ID, PADDING>>]

\* a record_debug that stores under any name
record_debugAnyName(info, name, d) ==
    [info EXCEPT !.data = Put(info.data, name, d)]

\* impl Visit for ExtendedLog: record_debug
record_debug(info, name, d) ==
    IF name \in Range(info.keys)
    THEN [info EXCEPT !.data = Put(info.data, name, d)]
    ELSE info

\* Attributes::record / Record::record: visit the fields that have a value,
\* in declaration order; a field set to Empty is not in vals
RECURSIVE RecordAll(_, _)
RecordAll(info, vals) ==
    IF vals = <<>> THEN info
    ELSE RecordAll(record_debug(info, Head(vals)[1], Head(vals)[2]), Tail(vals))

\* FallLog::new_span: the ExtendedLog stored in the span's extensions
new_span(extend_fields, attrs) ==
    RecordAll([ExtendedLogDefault EXCEPT !.keys = @ \o extend_fields], attrs)

\* impl From<OpenTrace> for Span: the attributes of the span! call; the
\* values go through Display, padding = Empty carries no value
SpanAttrs(ot) ==
    << <<TRACE_ID, ot.trace_id>>, <<SPAN_ID, ot.span_id>>,
       <<PARENT_SPAN_ID, ot.parent_span_id>> >>

\* impl Display for ExtendedLog
RECURSIVE DisplayFrom(_, _, _)
DisplayFrom(info, k, flag) ==
    IF k > Len(info.keys) THEN <<>>
    ELSE (IF flag THEN <<",">> ELSE <<>>)
         \o (IF info.keys[k] \in DOMAIN info.data THEN info.data[info.keys[k]] ELSE <<>>)
         \o DisplayFrom(info, k + 1, TRUE)

Display(info) == DisplayFrom(info, 1, FALSE)

\* ------------------------------------------------------------------------
\* The registry's per-thread span stack (Span::enter, the guard's drop,
\* Span::current)
\* ------------------------------------------------------------------------
\* Span::enter: push; an id already on the stack is pushed as a duplicate
Push(st, id) ==
    Append(st, [id |-> id, duplicate |-> \E k \in DOMAIN st : st[k].id = id])

RemoveAt(st, i) == [k \in 1..(Len(st) - 1) |-> IF k < i THEN st[k] ELSE st[k + 1]]

\* a drop that removes the entry only when it is on top of the stack
PopTopOnly(st, id) ==
    IF st # <<>> /\ st[Len(st)].id = id THEN SubSeq(st, 1, Len(st) - 1) ELSE st

\* drop of the Entered guard: remove the topmost entry of that id, wherever
\* it is in the stack
Pop(st, id) ==
    IF \E k \in DOMAIN st : st[k].id = id
    THEN RemoveAt(st, CHOOSE k \in DOMAIN st :
                          /\ st[k].id = id
                          /\ \A j \in DOMAIN st : st[j].id = id => j <= k)
    ELSE st

\* the thread's current span: the topmost entry that is not a duplicate
Current(st) ==
    IF \E k \in DOMAIN st : ~st[k].duplicate
    THEN Some(st[CHOOSE k \in DOMAIN st :
                    /\ ~st[k].duplicate
                    /\ \A j \in DOMAIN st : ~st[j].duplicate => j <= k].id)
    ELSE None

\* the ExtendedLog of the thread's current span, if any
CurrentInfo(st, sp) ==
    IF Current(st).some /\ Current(st).val \in DOMAIN sp
    THEN Some(sp[Current(st).val]) ELSE None

\* fn current_trace_id
current_trace_id(st, sp) ==
    LET info == CurrentInfo(st, sp)
    IN  IF info.some /\ TRACE_ID \in DOMAIN info.val.data
        THEN Some(info.val.data[TRACE_ID]) ELSE None

\* new_child_span handing on the span's parent instead of the span's own id
new_child_spanOfParent(st, sp, rnd) ==
    LET info == CurrentInfo(st, sp)
    IN  IF /\ info.some
           /\ TRACE_ID \in DOMAIN info.val.data
           /\ PARENT_SPAN_ID \in DOMAIN info.val.data
        THEN Some([trace_id       |-> info.val.data[TRACE_ID],
                   span_id        |-> u64_hex(rnd),
                   parent_span_id |-> info.val.data[PARENT_SPAN_ID]])
        ELSE None

\* fn new_child_span; rnd is the value rand_u64() returns
new_child_span(st, sp, rnd) ==
    LET info == CurrentInfo(st, sp)
    IN  IF /\ info.some
           /\ TRACE_ID \in DOMAIN info.val.data
           /\ SPAN_ID \in DOMAIN info.val.data
        THEN Some([trace_id       |-> info.val.data[TRACE_ID],
                   span_id        |-> u64_hex(rnd),
                   parent_span_id |-> info.val.data[SPAN_ID]])
        ELSE None

\* ------------------------------------------------------------------------
\* FallLog: level filter and the event line
\* ------------------------------------------------------------------------
ERROR == 1

WARN == 2

INFO == 3

DEBUG == 4

TRACE == 5

Levels == {ERROR, WARN, INFO, DEBUG, TRACE}

\* impl Display for Level
LevelName(l) ==
    CASE l = ERROR -> <<"E", "R", "R", "O", "R">>
      [] l = WARN  -> <<"W", "A", "R", "N">>
      [] l = INFO  -> <<"I", "N", "F", "O">>
      [] l = DEBUG -> <<"D", "E", "B", "U", "G">>
      [] l = TRACE -> <<"T", "R", "A", "C", "E">>

\* FallLog::new
FallLogNew(app_name, writer) ==
    [writer |-> writer, max_level |-> INFO, app_name |-> app_name,
     extend_fields |-> <<>>]

\* FallLog::max_level
WithMaxLevel(log, level) == [log EXCEPT !.max_level = level]

\* FallLog::add_field
add_field(log, field_name) ==
    [log EXCEPT !.extend_fields = Append(@, field_name)]

\* a filter that compares the wrong way round
enabledReversed(log, level) == level >= log.max_level

\* Layer::enabled
enabled(log, level) == level <= log.max_level

\* the text on_event assembles in its buffer: the five write! calls and the
\* visit of the event's message field.  now is the rendered clock reading,
\* module an Option, info the Option of the current span's ExtendedLog
EventLine(log, now, level, module, message, info) ==
    Concat(<< now, <<" ">>, LevelName(level),
              IF info.some
              THEN <<" ", "[">> \o log.app_name \o <<",">> \o Display(info.val) \o <<"]">>
              ELSE <<" ", "[">> \o log.app_name \o <<",", "]">>,
              <<" ">>, (IF module.some THEN module.val ELSE <<>>), <<":", " ">>,
              message, <<"\n">> >>)

\* ------------------------------------------------------------------------
\* FallError and the responses built from it
\* ------------------------------------------------------------------------
NOT_FOUND == 404

INTERNAL_SERVER_ERROR == 500

IO_ERROR(m) == [kind |-> "IO_ERROR", msg |-> m]

HTTP_ERROR(s, o) == [kind |-> "HTTP_ERROR", status |-> s, source |-> o]

REMOTE_ERROR(s, m) == [kind |-> "REMOTE_ERROR", status |-> s, msg |-> m]

\* ResponseError::status_code for FallError
status_code(e) ==
    IF e.kind = "IO_ERROR" THEN INTERNAL_SERVER_ERROR ELSE e.status

\* impl Display for StatusCode: the code and its canonical reason
StatusText(s) ==
    CASE s = 200 -> "200 OK"
      [] s = 404 -> "404 Not Found"
      [] s = 418 -> "418 I'm a teapot"
      [] s = 500 -> "500 Internal Server Error"

\* impl Display for FallError
DisplayError(e) ==
    CASE e.kind = "IO_ERROR"     -> e.msg
      [] e.kind = "HTTP_ERROR"   -> IF e.source.some THEN e.source.val
                                    ELSE StatusText(e.status)
      [] e.kind = "REMOTE_ERROR" -> e.msg

\* ResponseError::error_response for FallError; tid is what
\* fall_log::current_trace_id() returns at the call.  Serialising an
\* ErrorBody cannot fail, so the fallback to status 500 is unreachable.
error_response(e, tid) ==
    [status |-> status_code(e),
     body   |-> IF e.kind = "REMOTE_ERROR" THEN [raw |-> e.msg]
                ELSE [trace_id |-> tid, status |-> status_code(e),
                      message |-> DisplayError(e)]]

\* a post_response that is the identity on every response
post_responseIdentity(res, tid) == res

\* RequestHandler::post_response (the default)
post_response(res, tid) ==
    IF res.status = NOT_FOUND
    THEN error_response(HTTP_ERROR(res.status, None), tid)
    ELSE res

\* ------------------------------------------------------------------------
\* Bounds and input sets
\* ------------------------------------------------------------------------
NumReqs == 2

MaxEvents == 2

Reqs == 1..NumReqs

NumThreads == 2

EventsPerThread == 2

Threads == 1..NumThreads

NoReq == 0

NoSpan == 0

\* the rendering of Utc::now()
NowText == <<"<now>">>

AppName == <<"s", "v", "c">>

RandPool == {U64(<<1>>), U64(<<2, 10>>)}

\* inbound header sets: none; the chained request a1b2/cd/77
WebHeaders ==
    { <<>>,
      << <<"X-B3-TraceId", <<"a", "1", "b", "2">> >>,
         <<"X-B3-SpanId", <<"c", "d">> >>,
         <<"X-B3-ParentSpanId", <<"7", "7">> >> >> }

WebMaxLevels == {WARN, INFO}

WebEventLevels == {WARN}

WebRand == {U64(<<1>>)}

\* errors a pre_request override resolves to
PreErrors ==
    { HTTP_ERROR(418, Some("teapot")),
      HTTP_ERROR(NOT_FOUND, Some("no such tenant")) }

\* what the inner service resolves to
InnerResponses == { [status |-> 200, body |-> [raw |-> "ok"]],
                    [status |-> NOT_FOUND, body |-> [raw |-> "no route"]] }

InnerErrors == {"payload error"}

VARIABLES
    layer,      \* the installed FallLog: app_name, max_level, extend_fields
    spans,      \* registry: span id -> ExtendedLog, for the live spans
    stack,      \* the worker thread's span stack
    nextSpan,   \* the next span id the registry hands out
    running,    \* the request future the worker thread is polling, or NoReq
    task,       \* per request: the state of the future FallMiddleware::call built
    written,    \* the lines the writer received, with who emitted them
    returned,   \* the outcome of the request future that completed last
    th,         \* per emitting thread: position in on_event, its BUF, progress
    lock,       \* the holder of the writer mutex, or NoThread
    wout,       \* the bytes the shared writer received
    done,       \* the events whose write_all returned, in that order
    poisoned,   \* whether the writer mutex is poisoned
    nested,     \* per thread: the on_event calls running inside its outer one
    client,     \* the FallClient in use: func and default headers
    last,       \* the last call of a helper, decoder or request builder
    global,     \* the process-wide default subscriber, once installed
    inits       \* the calls of FallLog::init so far and what they returned

substrateVars == <<layer, spans, stack, nextSpan>>

webVars == <<running, task, written, returned>>

logVars == <<th, lock, wout, done, poisoned, nested>>

b3Vars == <<client, last>>

initVars == <<global, inits>>

vars == <<substrateVars, webVars, logVars, b3Vars, initVars>>

notWeb == <<logVars, b3Vars, initVars>>

notLog == <<spans, stack, nextSpan, webVars, b3Vars, initVars>>

notB3 == <<webVars, logVars, initVars>>

notInit == <<substrateVars, webVars, logVars, b3Vars>>

\* ------------------------------------------------------------------------
\* FallMiddleware::call: the future of one request on the worker thread.
\* The worker polls one future at a time; a poll runs the future from where
\* it is to its next pending await or to its end.
\* ------------------------------------------------------------------------
Ok(v) == [ok |-> TRUE, res |-> v]

Err(e) == [ok |-> FALSE, err |-> e]

NewTask == [pc |-> "new", span |-> NoSpan, inner_called |-> FALSE]

\* the ExtendedLog of the request's own span, if the span exists
OwnInfo(r) ==
    IF task[r].span \in DOMAIN spans THEN Some(spans[task[r].span]) ELSE None

Without(f, k) == [n \in (DOMAIN f) \ {k} |-> f[n]]

\* first poll: hd.new_span(&req) (from_req, span!, FallLog::new_span),
\* span.enter(), then pre_request starts.  A span! at INFO that the layer
\* does not enable yields a disabled span: nothing is stored or entered.
Call(r) ==
    /\ running = NoReq
    /\ task[r].pc = "new"
    /\ \E h \in WebHeaders, rnd \in WebRand :
          IF enabled(layer, INFO)
          THEN /\ spans' = Put(spans, nextSpan,
                               new_span(layer.extend_fields, SpanAttrs(from_req(h, rnd))))
               /\ stack' = Push(stack, nextSpan)
               /\ nextSpan' = nextSpan + 1
               /\ task' = [task EXCEPT ![r].pc = "pre", ![r].span = nextSpan]
          ELSE /\ task' = [task EXCEPT ![r].pc = "pre"]
               /\ UNCHANGED <<spans, stack, nextSpan>>
    /\ running' = r
    /\ UNCHANGED <<layer, written, returned>>
    /\ UNCHANGED notWeb

\* code running inside the request (pre_request or the inner service) emits
\* an enabled event: FallLog::on_event renders it with the thread's current
\* span and writes the line
LogEvent(r) ==
    /\ running = r
    /\ task[r].pc \in {"pre", "inner"}
    /\ Len(written) < MaxEvents
    /\ \E level \in WebEventLevels :
          /\ enabled(layer, level)
          /\ written' = Append(written,
                 [by |-> r, level |-> level, own |-> OwnInfo(r),
                  line |-> EventLine(layer, NowText, level, Some(<<"m">>),
                                     <<"h", "i">>, CurrentInfo(stack, spans))])
    /\ UNCHANGED <<layer, spans, stack, nextSpan, running, task, returned>>
    /\ UNCHANGED notWeb

\* the awaited future (pre_request or the inner service) returns Pending
Yield(r) ==
    /\ running = r
    /\ task[r].pc \in {"pre", "inner"}
    /\ running' = NoReq
    /\ UNCHANGED <<layer, spans, stack, nextSpan, task, written, returned>>
    /\ UNCHANGED notWeb

\* the worker polls the suspended future again
Resume(r) ==
    /\ running = NoReq
    /\ task[r].pc \in {"pre", "inner"}
    /\ running' = r
    /\ UNCHANGED <<layer, spans, stack, nextSpan, task, written, returned>>
    /\ UNCHANGED notWeb

\* pre_request resolves to Ok(()): sv.call(req) is invoked and awaited
PreOk(r) ==
    /\ running = r
    /\ task[r].pc = "pre"
    /\ task' = [task EXCEPT ![r].pc = "inner", ![r].inner_called = TRUE]
    /\ UNCHANGED <<layer, spans, stack, nextSpan, running, written, returned>>
    /\ UNCHANGED notWeb

\* the end of the async block: _enter is dropped, then span
Release(r) ==
    /\ stack' = IF task[r].span = NoSpan THEN stack ELSE Pop(stack, task[r].span)
    /\ spans' = Without(spans, task[r].span)
    /\ running' = NoReq

\* what the future of request r resolved to, and how: the pre_request error
\* and the response built from it, the inner service's result, whether
\* post_response ran
Returned(r, rejected, rejection, inner, post_called, result) ==
    Some([req |-> r, inner_called |-> task[r].inner_called,
          rejected |-> rejected, rejection |-> rejection, inner |-> inner,
          post_called |-> post_called, result |-> result])

\* pre_request resolves to Err(e): Ok(req.error_response(e)), and the
\* trailing .map(|r| hd.post_response(r)) applies to that Ok value
PreErr(r) ==
    /\ running = r
    /\ task[r].pc = "pre"
    /\ \E e \in PreErrors :
          LET tid == current_trace_id(stack, spans)
              rej == error_response(e, tid)
          IN  returned' = Returned(r, Some(e), Some(rej), None, TRUE,
                                   Ok(post_response(rej, tid)))
    /\ task' = [task EXCEPT ![r].pc = "done"]
    /\ Release(r)
    /\ UNCHANGED <<layer, nextSpan, written>>
    /\ UNCHANGED notWeb

\* the inner service resolves to Ok(res): post_response maps it
InnerOk(r) ==
    /\ running = r
    /\ task[r].pc = "inner"
    /\ \E res \in InnerResponses :
          returned' = Returned(r, None, None, Some(Ok(res)), TRUE,
                               Ok(post_response(res, current_trace_id(stack, spans))))
    /\ task' = [task EXCEPT ![r].pc = "done"]
    /\ Release(r)
    /\ UNCHANGED <<layer, nextSpan, written>>
    /\ UNCHANGED notWeb

\* the inner service resolves to Err(err): Result::map leaves it alone
InnerErr(r) ==
    /\ running = r
    /\ task[r].pc = "inner"
    /\ \E err \in InnerErrors :
          returned' = Returned(r, None, None, Some(Err(err)), FALSE, Err(err))
    /\ task' = [task EXCEPT ![r].pc = "done"]
    /\ Release(r)
    /\ UNCHANGED <<layer, nextSpan, written>>
    /\ UNCHANGED notWeb

\* the suspended future is dropped (client gone, timeout): its locals are
\* dropped with it
Cancel(r) ==
    /\ running = NoReq
    /\ task[r].pc \in {"pre", "inner"}
    /\ task' = [task EXCEPT ![r].pc = "cancelled"]
    /\ Release(r)
    /\ UNCHANGED <<layer, nextSpan, written, returned>>
    /\ UNCHANGED notWeb

NoThread == 0

NewThread == [pc |-> "idle", buf |-> <<>>, pos |-> 0, tried |-> <<>>, locks |-> 0]

\* FallClient::new
FallClientNew == [func |-> "set_trace", headers |-> <<>>]

WebIdle ==
    /\ running = NoReq
    /\ task = [r \in Reqs |-> NewTask]
    /\ written = <<>>
    /\ returned = None

LogIdle ==
    /\ th = [t \in Threads |-> NewThread]
    /\ lock = NoThread
    /\ wout = <<>>
    /\ done = <<>>
    /\ poisoned = FALSE
    /\ nested = [t \in Threads |-> <<>>]

B3Idle ==
    /\ client = FallClientNew
    /\ last = [op |-> "none"]

InitIdle ==
    /\ global = None
    /\ inits = <<>>

WebInit ==
    /\ LogIdle
    /\ B3Idle
    /\ InitIdle
    /\ layer \in {WithMaxLevel(FallLogNew(AppName, "stdout"), l) : l \in WebMaxLevels}
    /\ spans = <<>>
    /\ stack = <<>>
    /\ nextSpan = 1
    /\ running = NoReq
    /\ task = [r \in Reqs |-> NewTask]
    /\ written = <<>>
    /\ returned = None

WebNext ==
    \E r \in Reqs :
        \/ Call(r)
        \/ LogEvent(r)
        \/ Yield(r)
        \/ Resume(r)
        \/ PreOk(r)
        \/ PreErr(r)
        \/ InnerOk(r)
        \/ InnerErr(r)
        \/ Cancel(r)

SpecWeb == WebInit /\ [][WebNext]_vars

\* ------------------------------------------------------------------------
\* FallLog::on_event on several threads sharing the writer mutex
\* ------------------------------------------------------------------------
\* the levels of the events the threads of SpecLog emit
LogEventLevels == {INFO, DEBUG}

\* the message of the k-th event thread t emits
Message(t, k) == <<"t", HexChars[t + 1], "e", HexChars[k + 1]>>

\* the line of that event; these threads have no span entered
LineOf(t, k, level) ==
    EventLine(layer, NowText, level, Some(<<"m">>), Message(t, k), None)

\* an event the layer enables: on_event borrows the thread's BUF and
\* assembles the whole line in it
Format(t, lvls) ==
    /\ th[t].pc = "idle"
    /\ Len(th[t].tried) < EventsPerThread
    /\ \E level \in lvls :
          /\ enabled(layer, level)
          /\ th' = [th EXCEPT ![t].pc = "formatted",
                              ![t].tried = Append(@, level),
                              ![t].buf = @ \o LineOf(t, Len(th[t].tried) + 1, level)]
    /\ UNCHANGED <<layer, lock, wout, done, poisoned, nested>>
    /\ UNCHANGED notLog

\* an event the layer does not enable is dropped at the callsite: on_event
\* is not called
Filtered(t, lvls) ==
    /\ th[t].pc = "idle"
    /\ Len(th[t].tried) < EventsPerThread
    /\ \E level \in lvls :
          /\ ~enabled(layer, level)
          /\ th' = [th EXCEPT ![t].tried = Append(@, level)]
    /\ UNCHANGED <<layer, lock, wout, done, poisoned, nested>>
    /\ UNCHANGED notLog

\* a mutex that excludes nobody
LockNoExclusion(t) ==
    /\ th[t].pc = "formatted"
    /\ lock' = t
    /\ th' = [th EXCEPT ![t].pc = "locked", ![t].locks = @ + 1]
    /\ UNCHANGED <<layer, wout, done, poisoned, nested>>
    /\ UNCHANGED notLog

\* self.writer.lock() returning Ok: blocks while another thread holds the
\* mutex; the mutex is not poisoned
Lock(t) ==
    /\ th[t].pc = "formatted"
    /\ lock = NoThread
    /\ ~poisoned
    /\ lock' = t
    /\ th' = [th EXCEPT ![t].pc = "locked", ![t].locks = @ + 1]
    /\ UNCHANGED <<layer, wout, done, poisoned, nested>>
    /\ UNCHANGED notLog

\* one write call of write_all: the writer takes one byte or all the
\* remaining bytes, so that a line can be cut at every position
Write(t) ==
    /\ th[t].pc = "locked"
    /\ th[t].pos < Len(th[t].buf)
    /\ \E n \in {1, Len(th[t].buf) - th[t].pos} :
          /\ wout' = wout \o SubSeq(th[t].buf, th[t].pos + 1, th[t].pos + n)
          /\ th' = [th EXCEPT ![t].pos = @ + n]
    /\ UNCHANGED <<layer, lock, done, poisoned, nested>>
    /\ UNCHANGED notLog

\* write_all returned: the guard is dropped at the end of the statement,
\* then buf.clear()
Unlock(t) ==
    /\ th[t].pc = "locked"
    /\ th[t].pos = Len(th[t].buf)
    /\ lock' = IF lock = t THEN NoThread ELSE lock
    /\ done' = Append(done, [t |-> t, k |-> Len(th[t].tried),
                             level |-> th[t].tried[Len(th[t].tried)]])
    /\ th' = [th EXCEPT ![t].pc = "idle", ![t].buf = <<>>, ![t].pos = 0]
    /\ UNCHANGED <<layer, wout, poisoned, nested>>
    /\ UNCHANGED notLog

SubstrateIdle ==
    /\ spans = <<>>
    /\ stack = <<>>
    /\ nextSpan = 1

\* the threads of a process that installed FallLog::new(..) as it is
LogInit ==
    /\ WebIdle
    /\ B3Idle
    /\ InitIdle
    /\ SubstrateIdle
    /\ LogIdle
    /\ layer = FallLogNew(AppName, "stdout")

LogNext ==
    \E t \in Threads :
        \/ Format(t, LogEventLevels)
        \/ Filtered(t, LogEventLevels)
        \/ Lock(t)
        \/ Write(t)
        \/ Unlock(t)

SpecLog == LogInit /\ [][LogNext]_vars

\* one thread emitting events of every level under every max_level
LevelInit ==
    /\ WebIdle
    /\ B3Idle
    /\ InitIdle
    /\ SubstrateIdle
    /\ LogIdle
    /\ layer \in {FallLogNew(AppName, "stdout")}
                 \cup {WithMaxLevel(FallLogNew(AppName, "stdout"), l) : l \in Levels}

LevelNext ==
    \/ Format(1, Levels)
    \/ Filtered(1, Levels)
    \/ Lock(1)
    \/ Write(1)
    \/ Unlock(1)

SpecLevel == LevelInit /\ [][LevelNext]_vars

\* ------------------------------------------------------------------------
\* The B3 codec as pure functions: from_req on arbitrary inbound headers,
\* and the headers set_trace writes read back by from_req
\* ------------------------------------------------------------------------
\* ClientRequest::header: append
HeaderAppend(req, name, value) == Append(req, <<name, value>>)

\* set_trace with the parent header written before the span header
set_traceSwapped(req, s) ==
    IF s.some
    THEN HeaderAppend(HeaderAppend(HeaderAppend(req,
             "X-B3-TraceId", s.val.trace_id),
             "X-B3-SpanId", s.val.parent_span_id),
             "X-B3-ParentSpanId", s.val.span_id)
    ELSE req

\* ClientRequestExt::set_trace; s is what next_open_trace() returned
set_trace(req, s) ==
    IF s.some
    THEN HeaderAppend(HeaderAppend(HeaderAppend(req,
             "X-B3-TraceId", s.val.trace_id),
             "X-B3-SpanId", s.val.span_id),
             "X-B3-ParentSpanId", s.val.parent_span_id)
    ELSE req

IdPool == {U64(<<>>), U64(<<12, 13>>), U64(<<1>>), Repeat(15, U64Nibbles)}

\* values an inbound B3 header may carry: short and full-width hex, upper
\* case, a '+' sign, 17 digits with a leading zero, empty, not hex, a lone
\* sign, 2^64, a byte outside ASCII
HeaderSamples ==
    { <<"c", "d">>, Repeat("f", 16), <<"A", "1", "b", "2">>, <<"+", "7", "7">>,
      <<"0">> \o Repeat("e", 16),
      <<>>, <<"z", "z">>, <<"+">>, <<"-", "1">>, <<"1">> \o Repeat("0", 16),
      <<"c", NonAscii>> }

OptHeader(name, o) == IF o.some THEN << <<name, o.val>> >> ELSE <<>>

OptSamples == {None} \cup {Some(v) : v \in HeaderSamples}

\* the inbound requests from_req is given
InboundRequests ==
    {OptHeader("X-B3-TraceId", t) \o OptHeader("X-B3-SpanId", sp)
        \o OptHeader("X-B3-ParentSpanId", p) :
        t \in OptSamples, sp \in OptSamples, p \in OptSamples}

\* the contexts OpenTrace::new builds
Contexts ==
    {OpenTraceNew(t, sp, p) :
        t \in IdPool, sp \in IdPool, p \in {None} \cup {Some(i) : i \in IdPool}}

\* from_req on an inbound request
Decode ==
    /\ last.op = "request"
    /\ last' = [op |-> "decode", req |-> last.req, rnd |-> last.rnd,
                ctx |-> from_req(last.req, last.rnd)]
    /\ UNCHANGED <<substrateVars, client>>
    /\ UNCHANGED notB3

\* a context written to a request as set_trace writes it, and what from_req
\* makes of that request on the receiving side
RoundTrip ==
    /\ last.op = "context"
    /\ LET req == set_trace(<<>>, Some(last.ctx))
       IN  last' = [op |-> "trip", ctx |-> last.ctx, req |-> req,
                    back |-> from_req(req, last.rnd)]
    /\ UNCHANGED <<substrateVars, client>>
    /\ UNCHANGED notB3

CodecInit ==
    /\ WebIdle
    /\ LogIdle
    /\ InitIdle
    /\ SubstrateIdle
    /\ client = FallClientNew
    /\ layer = FallLogNew(AppName, "stdout")
    /\ last \in {[op |-> "request", req |-> r, rnd |-> rnd] :
                    r \in InboundRequests, rnd \in RandPool}
                \cup {[op |-> "context", ctx |-> c, rnd |-> rnd] :
                    c \in Contexts, rnd \in RandPool}

CodecNext ==
    \/ Decode
    \/ RoundTrip

SpecCodec == CodecInit /\ [][CodecNext]_vars

\* ------------------------------------------------------------------------
\* Spans opened by application code, the child-context helper and the
\* FallClient request builders, on one thread
\* ------------------------------------------------------------------------
MaxDepth == 2

MaxSpans == 3

\* fn next_open_trace, which client.rs imports from fall_log: the library
\* root under src/ exports this helper as new_child_span
next_open_trace(st, sp, rnd) == new_child_span(st, sp, rnd)

\* ClientRequest::content_type via ClientRequestExt::accept_json
accept_json(req) == HeaderAppend(req, "content-type", <<"application/json">>)

\* the functions a FallClient may hold in func: the default, and hooks an
\* application installs with config
Hooks == {"set_trace", "accept_json", "json_then_trace"}

\* (self.func)(req)
ApplyFunc(f, req, st, sp, rnd) ==
    CASE f = "set_trace"       -> set_trace(req, next_open_trace(st, sp, rnd))
      [] f = "accept_json"     -> accept_json(req)
      [] f = "json_then_trace" -> set_trace(accept_json(req), next_open_trace(st, sp, rnd))

\* FallClient::pre: the function, then the client's default headers
pre(c, req, st, sp, rnd) == ApplyFunc(c.func, req, st, sp, rnd) \o c.headers

\* the request-building methods of FallClient
Methods == {"request", "request_from", "get", "head", "put", "post", "patch",
            "delete", "options", "ws"}

\* the headers request_from copies from the given head
HeadHeaders == << <<"accept", <<"*/*">> >> >>

\* what each method returns: all but ws go through pre
Built(c, method, st, sp, rnd) ==
    CASE method = "ws"           -> <<>>
      [] method = "request_from" -> pre(c, HeadHeaders, st, sp, rnd)
      [] OTHER                   -> pre(c, <<>>, st, sp, rnd)

\* attributes of the spans application code opens: contexts turned into
\* spans, a root context, a span without ids, a span! with integer ids
SpanChoices ==
    { SpanAttrs(OpenTraceNew(U64(<<10, 1, 11, 2>>), U64(<<12, 13>>), Some(U64(<<7, 7>>)))),
      SpanAttrs(OpenTraceNew(U64(<<12, 13>>), U64(<<1>>), None)),
      <<>>,
      << <<TRACE_ID, <<"1">> >>, <<SPAN_ID, <<"1">> >> >> }
    \cup {SpanAttrs(OpenTraceDefault(rnd)) : rnd \in RandPool}

\* span!(Level::INFO, ..) and span.enter()
OpenSpan ==
    /\ Len(stack) < MaxDepth
    /\ nextSpan <= MaxSpans
    /\ enabled(layer, INFO)
    /\ \E attrs \in SpanChoices :
          spans' = Put(spans, nextSpan, new_span(layer.extend_fields, attrs))
    /\ stack' = Push(stack, nextSpan)
    /\ nextSpan' = nextSpan + 1
    /\ last' = [op |-> "none"]
    /\ UNCHANGED <<layer, client>>
    /\ UNCHANGED notB3

\* the guard and the span of the innermost scope are dropped
CloseSpan ==
    /\ stack # <<>>
    /\ stack' = Pop(stack, stack[Len(stack)].id)
    /\ spans' = Without(spans, stack[Len(stack)].id)
    /\ last' = [op |-> "none"]
    /\ UNCHANGED <<layer, nextSpan, client>>
    /\ UNCHANGED notB3

\* FallClient::config
Config ==
    /\ \E f \in Hooks : client' = [client EXCEPT !.func = f]
    /\ client' # client
    /\ last' = [op |-> "none"]
    /\ UNCHANGED substrateVars
    /\ UNCHANGED notB3

\* FallClient::header
ClientHeader ==
    /\ client.headers = <<>>
    /\ client' = [client EXCEPT !.headers = << <<"x-api-key", <<"k">> >> >>]
    /\ last' = [op |-> "none"]
    /\ UNCHANGED substrateVars
    /\ UNCHANGED notB3

\* application code calls new_child_span
ChildSpan ==
    /\ \E rnd \in RandPool :
          last' = [op |-> "child", cur |-> CurrentInfo(stack, spans), rnd |-> rnd,
                   before |-> [spans |-> spans, stack |-> stack],
                   res |-> new_child_span(stack, spans, rnd)]
    /\ last' # last
    /\ UNCHANGED <<substrateVars, client>>
    /\ UNCHANGED notB3

\* application code builds an outbound request with one of the methods
Build ==
    /\ \E method \in Methods, rnd \in RandPool :
          last' = [op |-> "build", method |-> method, func |-> client.func,
                   cur |-> CurrentInfo(stack, spans), rnd |-> rnd,
                   headers |-> Built(client, method, stack, spans, rnd)]
    /\ last' # last
    /\ UNCHANGED <<substrateVars, client>>
    /\ UNCHANGED notB3

ClientInit ==
    /\ WebIdle
    /\ LogIdle
    /\ InitIdle
    /\ SubstrateIdle
    /\ B3Idle
    /\ layer = FallLogNew(AppName, "stdout")

ClientNext ==
    \/ OpenSpan
    \/ CloseSpan
    \/ Config
    \/ ClientHeader
    \/ ChildSpan
    \/ Build

SpecClient == ClientInit /\ [][ClientNext]_vars

\* ------------------------------------------------------------------------
\* FallLog::init and the process-wide default subscriber
\* ------------------------------------------------------------------------
MaxInits == 3

\* layers an application may build with new, max_level and add_field
LayerConfigs ==
    { FallLogNew(AppName, "stdout"),
      WithMaxLevel(FallLogNew(AppName, "stdout"), DEBUG),
      add_field(FallLogNew(AppName, "stdout"), "user"),
      FallLogNew(<<"a", "p", "i">>, "file"),
      add_field(WithMaxLevel(FallLogNew(<<"a", "p", "i">>, "file"), WARN), "user") }

\* an init that installs its layer whatever is installed
initReplacing(g, l) == [global |-> Some(l), res |-> Ok("unit")]

\* FallLog::init: set_global_default(Registry::default().with(self)) takes
\* effect only while no global default is set, and fails afterwards
init(g, l) ==
    IF g.some
    THEN [global |-> g, res |-> Err("SetGlobalDefaultError")]
    ELSE [global |-> Some(l), res |-> Ok("unit")]

\* application code calls FallLog::init and gets its result
Init ==
    /\ Len(inits) < MaxInits
    /\ \E l \in LayerConfigs :
          /\ global' = init(global, l).global
          /\ inits' = Append(inits, [via |-> "init", layer |-> l,
                                     res |-> init(global, l).res])
    /\ UNCHANGED notInit

\* fall_web::start: let _ = app.new_log().init(); the server then starts
\* whatever init returned
Start ==
    /\ Len(inits) < MaxInits
    /\ \E l \in LayerConfigs :
          /\ global' = init(global, l).global
          /\ inits' = Append(inits, [via |-> "start", layer |-> l,
                                     res |-> init(global, l).res])
    /\ UNCHANGED notInit

InstallInit ==
    /\ WebIdle
    /\ LogIdle
    /\ B3Idle
    /\ SubstrateIdle
    /\ InitIdle
    /\ layer = FallLogNew(AppName, "stdout")

InstallNext ==
    \/ Init
    \/ Start

SpecInstall == InstallInit /\ [][InstallNext]_vars

\* ------------------------------------------------------------------------
\* Properties of the middleware (SpecWeb)
\* ------------------------------------------------------------------------
\* the line on_event would write for the entry if the current span were the
\* emitting request's own span
OwnLine(w) ==
    EventLine(layer, NowText, w.level, Some(<<"m">>), <<"h", "i">>, w.own)

\* C1: every line emitted while request R is handled is rendered with the
\* trace_id and span_id of R's own span, never with those of another
\* request's span, whatever the interleaving of requests on the worker.
C1_EventsCarryOwnSpan ==
    \A k \in DOMAIN written : written[k].line = OwnLine(written[k])

\* C3: when pre_request resolves to an error e, the inner service is not
\* invoked and the response returned is the error response built from e:
\* e's status code and e's error body.
C3_RejectionReturnsErrorResponse ==
    (returned.some /\ returned.val.rejected.some)
        => /\ ~returned.val.inner_called
           /\ returned.val.result.ok
           /\ returned.val.result.res.status = status_code(returned.val.rejected.val)
           /\ returned.val.result.res.body = returned.val.rejection.val.body

\* the part of C3 the code does satisfy: no inner call, and e's status
RejectionSkipsInnerKeepsStatus ==
    (returned.some /\ returned.val.rejected.some)
        => /\ ~returned.val.inner_called
           /\ returned.val.result.ok
           /\ returned.val.result.res.status = status_code(returned.val.rejected.val)

\* C4: post_response is applied only on the success branch of the inner
\* service; when the inner service returns an error post_response is not
\* called and the middleware returns that same error unchanged.
C4_PostResponseOnlyOnInnerSuccess ==
    returned.some
        => /\ returned.val.post_called
                => (returned.val.inner.some /\ returned.val.inner.val.ok)
           /\ (returned.val.inner.some /\ ~returned.val.inner.val.ok)
                => (~returned.val.post_called
                    /\ returned.val.result = returned.val.inner.val)

\* the part of C4 the code does satisfy: an error of the inner service
\* bypasses post_response and is returned as it is
InnerErrorBypassesPostResponse ==
    (returned.some /\ returned.val.inner.some /\ ~returned.val.inner.val.ok)
        => (~returned.val.post_called
            /\ returned.val.result = returned.val.inner.val)

\* ------------------------------------------------------------------------
\* Properties of on_event across threads (SpecLog)
\* ------------------------------------------------------------------------
Count(seq, c) == Cardinality({k \in DOMAIN seq : seq[k] = c})

\* the events the layer enabled, as <<thread, index>>
EnabledEvents ==
    {<<t, k>> \in Threads \X (1..EventsPerThread) :
        k <= Len(th[t].tried) /\ th[t].tried[k] <= layer.max_level}

\* those of them still inside on_event
InFlight == {<<t, Len(th[t].tried)>> : t \in {u \in Threads : th[u].pc # "idle"}}

\* the lines of the events whose write_all returned, in that order
DoneText == Concat([k \in DOMAIN done |-> LineOf(done[k].t, done[k].k, done[k].level)])

\* the part of its line the lock holder has written so far
PartialText ==
    IF lock = NoThread THEN <<>> ELSE SubSeq(th[lock].buf, 1, th[lock].pos)

AllEmitted ==
    \A t \in Threads : th[t].pc = "idle" /\ Len(th[t].tried) = EventsPerThread

\* C2: the writer receives one complete line per enabled event and no
\* line's bytes are interleaved with another's: each on_event holds its
\* whole line in its own buffer before it takes the writer lock, takes the
\* lock exactly once, and writes the line while holding it; N threads that
\* each emitted M enabled events leave exactly N*M lines.
C2_AtomicLines ==
    /\ wout = DoneText \o PartialText
    /\ {<<done[k].t, done[k].k>> : k \in DOMAIN done} = EnabledEvents \ InFlight
    /\ Len(done) = Cardinality(EnabledEvents \ InFlight)
    /\ \A t \in Threads :
          /\ th[t].pc \in {"formatted", "locked"}
                => th[t].buf = LineOf(t, Len(th[t].tried), th[t].tried[Len(th[t].tried)])
          /\ th[t].locks = Cardinality({k \in DOMAIN done : done[k].t = t})
                           + (IF th[t].pc = "locked" THEN 1 ELSE 0)
    /\ AllEmitted => Count(wout, "\n") = Cardinality(EnabledEvents)

\* N threads emitted M enabled events each, their lines alternating
C2_Witness ==
    /\ AllEmitted
    /\ Cardinality(EnabledEvents) = NumThreads * EventsPerThread
    /\ Count(wout, "\n") = NumThreads * EventsPerThread
    /\ done[1].t # done[2].t

\* ------------------------------------------------------------------------
\* Properties of the level filter (SpecLevel)
\* ------------------------------------------------------------------------
\* the lines of the events of thread 1 at or above the severity of
\* max_level, in the order they were emitted
RECURSIVE KeptLines(_, _)
KeptLines(tried, k) ==
    IF k > Len(tried) THEN <<>>
    ELSE (IF tried[k] <= layer.max_level THEN LineOf(1, k, tried[k]) ELSE <<>>)
         \o KeptLines(tried, k + 1)

\* C5: an event reaches the writer only if its level is at or above the
\* severity of max_level (ERROR < WARN < INFO < DEBUG < TRACE): under the
\* default max_level INFO no DEBUG or TRACE event is written, and the
\* writer holds exactly the lines of the events that pass, so under
\* max_level WARN an INFO event followed by a WARN event leaves one line,
\* the WARN one.
C5_LevelFilter ==
    /\ ERROR < WARN /\ WARN < INFO /\ INFO < DEBUG /\ DEBUG < TRACE
    /\ \A k \in DOMAIN done : done[k].level <= layer.max_level
    /\ layer = FallLogNew(AppName, "stdout")
          => \A k \in DOMAIN done : done[k].level \notin {DEBUG, TRACE}
    /\ th[1].pc = "idle" => wout = KeptLines(th[1].tried, 1)

\* max_level WARN, an INFO then a WARN event: one line, the WARN one
C5_Witness ==
    /\ layer.max_level = WARN
    /\ th[1].tried = <<INFO, WARN>>
    /\ th[1].pc = "idle"
    /\ wout = LineOf(1, 2, WARN)
    /\ Count(wout, "\n") = 1

\* ------------------------------------------------------------------------
\* Properties of the B3 codec (SpecCodec)
\* ------------------------------------------------------------------------
\* C8: for every context built from 64-bit ids, with or without a parent,
\* writing its three ids to request headers as set_trace does and parsing
\* those headers as from_req does yields the same trace_id, span_id and
\* parent_span_id.
C8_RoundTrip ==
    last.op = "trip"
        => /\ last.back.trace_id = last.ctx.trace_id
           /\ last.back.span_id = last.ctx.span_id
           /\ last.back.parent_span_id = last.ctx.parent_span_id

\* a context with a parent and one without went round
C8_Witness ==
    /\ last.op = "trip"
    /\ last.ctx.parent_span_id = <<>>
    /\ last.ctx.trace_id = u64_hex(U64(<<12, 13>>))
    /\ last.ctx.span_id = u64_hex(U64(<<1>>))
    /\ last.back = last.ctx

\* the text of a header value, told apart without running the parser: an
\* optional '+', then one or more hex digits of either case, of which at
\* most 16 are significant
Unsigned(v) == IF v # <<>> /\ Head(v) = "+" THEN Tail(v) ELSE v

RECURSIVE StripZeroChars(_)
StripZeroChars(v) ==
    IF Len(v) > 1 /\ Head(v) = "0" THEN StripZeroChars(Tail(v)) ELSE v

IsHexU64Text(v) ==
    /\ Unsigned(v) # <<>>
    /\ \A c \in Range(Unsigned(v)) : c \in Range(HexChars) \cup Range(UpperHexChars)
    /\ Len(StripZeroChars(Unsigned(v))) <= 16

ToLower(c) ==
    IF \E k \in 1..16 : UpperHexChars[k] = c
    THEN HexChars[CHOOSE k \in 1..16 : UpperHexChars[k] = c] ELSE c

\* the 16-digit lowercase rendering of the number the text denotes
Canonical(v) ==
    LET d == StripZeroChars(Unsigned(v))
    IN  Repeat("0", 16 - Len(d)) \o [k \in 1..Len(d) |-> ToLower(d[k])]

WellFormed(o) == o.some /\ IsHexU64Text(o.val)

\* C9: from_req always returns a context and falls back header by header:
\* a missing or malformed X-B3-TraceId gives the freshly generated id, a
\* missing or malformed X-B3-SpanId gives span_id = trace_id (also when the
\* trace id came from a valid header), a missing or malformed
\* X-B3-ParentSpanId gives the empty parent; with no B3 header at all
\* span_id = trace_id and there is no parent.
C9_DecodeFallback ==
    last.op = "decode"
        => LET t  == HeaderGet(last.req, "X-B3-TraceId")
               sp == HeaderGet(last.req, "X-B3-SpanId")
               p  == HeaderGet(last.req, "X-B3-ParentSpanId")
           IN  /\ last.ctx.trace_id =
                     IF WellFormed(t) THEN Canonical(t.val) ELSE u64_hex(last.rnd)
               /\ last.ctx.span_id =
                     IF WellFormed(sp) THEN Canonical(sp.val) ELSE last.ctx.trace_id
               /\ last.ctx.parent_span_id =
                     IF WellFormed(p) THEN Canonical(p.val) ELSE <<>>
               /\ last.req = <<>>
                     => /\ last.ctx.span_id = last.ctx.trace_id
                        /\ last.ctx.parent_span_id = <<>>

\* a valid trace id, a malformed span id, no parent header
C9_Witness ==
    /\ last.op = "decode"
    /\ last.req = << <<"X-B3-TraceId", <<"c", "d">> >>, <<"X-B3-SpanId", <<"z", "z">> >> >>
    /\ last.ctx = [trace_id |-> u64_hex(U64(<<12, 13>>)),
                   span_id |-> u64_hex(U64(<<12, 13>>)),
                   parent_span_id |-> <<>>]

\* ------------------------------------------------------------------------
\* Properties of the helpers and the client (SpecClient)
\* ------------------------------------------------------------------------
\* the current span carries a context: trace_id and span_id are stored
HasCtx(cur) ==
    cur.some /\ TRACE_ID \in DOMAIN cur.val.data /\ SPAN_ID \in DOMAIN cur.val.data

B3Names == {"X-B3-TraceId", "X-B3-SpanId", "X-B3-ParentSpanId"}

\* C6: every request built through any request-building method of
\* FallClient while a span with context (T, S, _) is current, whatever hook
\* config installed, carries X-B3-TraceId = T, X-B3-ParentSpanId = S and a
\* freshly generated X-B3-SpanId, the hook being applied in addition to the
\* injection; when no span is current no B3 header is added.
C6_EveryRequestCarriesB3 ==
    last.op = "build"
        => /\ HasCtx(last.cur)
                => /\ HeaderGet(last.headers, "X-B3-TraceId")
                          = Some(last.cur.val.data[TRACE_ID])
                   /\ HeaderGet(last.headers, "X-B3-ParentSpanId")
                          = Some(last.cur.val.data[SPAN_ID])
                   /\ HeaderGet(last.headers, "X-B3-SpanId") = Some(u64_hex(last.rnd))
           /\ last.func # "set_trace"
                => HeaderGet(last.headers, "content-type").some
           /\ ~last.cur.some
                => \A n \in B3Names : ~HeaderGet(last.headers, n).some

\* what the code does satisfy: the injection happens when func is the
\* default or calls set_trace itself, and the method is not ws
DefaultFuncInjectsB3 ==
    (/\ last.op = "build"
     /\ last.method # "ws"
     /\ last.func \in {"set_trace", "json_then_trace"}
     /\ HasCtx(last.cur))
        => /\ HeaderGet(last.headers, "X-B3-TraceId") = Some(last.cur.val.data[TRACE_ID])
           /\ HeaderGet(last.headers, "X-B3-ParentSpanId")
                  = Some(last.cur.val.data[SPAN_ID])
           /\ HeaderGet(last.headers, "X-B3-SpanId") = Some(u64_hex(last.rnd))

\* C7 as stated: under a current span S with trace_id and span_id the
\* helper returns c with c.trace_id = S.trace_id, c.parent_span_id =
\* S.span_id and c.span_id a fresh id different from S.span_id, and leaves
\* the span store and the current span as they were.
C7_ChildSpanIdDiffers ==
    (last.op = "child" /\ HasCtx(last.cur))
        => /\ last.res.some
           /\ last.res.val.trace_id = last.cur.val.data[TRACE_ID]
           /\ last.res.val.parent_span_id = last.cur.val.data[SPAN_ID]
           /\ last.res.val.span_id # last.cur.val.data[SPAN_ID]
           /\ last.before = [spans |-> spans, stack |-> stack]

\* C7 amended: c.trace_id = S.trace_id, c.parent_span_id = S.span_id, and
\* c.span_id is the 16-digit rendering of the newly drawn random u64, which
\* may coincide with S.span_id; the span store and the current span are as
\* they were before the call.
C7_ChildContext ==
    (last.op = "child" /\ HasCtx(last.cur))
        => /\ last.res.some
           /\ last.res.val.trace_id = last.cur.val.data[TRACE_ID]
           /\ last.res.val.parent_span_id = last.cur.val.data[SPAN_ID]
           /\ last.res.val.span_id = u64_hex(last.rnd)
           /\ Len(last.res.val.span_id) = 16
           /\ last.before = [spans |-> spans, stack |-> stack]
           /\ CurrentInfo(stack, spans) = last.cur

\* the helper was called under the span of the chained context a1b2/cd/77
C7_Witness ==
    /\ last.op = "child"
    /\ HasCtx(last.cur)
    /\ last.cur.val.data[SPAN_ID] = u64_hex(U64(<<12, 13>>))
    /\ last.cur.val.data[PARENT_SPAN_ID] = u64_hex(U64(<<7, 7>>))
    /\ last.res = Some([trace_id |-> u64_hex(U64(<<10, 1, 11, 2>>)),
                        span_id |-> u64_hex(U64(<<2, 10>>)),
                        parent_span_id |-> u64_hex(U64(<<12, 13>>))])

\* ------------------------------------------------------------------------
\* Properties of FallLog::init (SpecInstall)
\* ------------------------------------------------------------------------
\* C10: in any sequence of init calls the first succeeds, every later one
\* returns an error to its caller, and the layer the first call installed
\* stays the one in effect.
C10_InitOnce ==
    inits # <<>>
        => /\ inits[1].res.ok
           /\ \A k \in 2..Len(inits) : ~inits[k].res.ok
           /\ global = Some(inits[1].layer)

\* a second init with another layer failed and left the first in place
C10_Witness ==
    /\ Len(inits) >= 2
    /\ inits[2].layer # inits[1].layer
    /\ ~inits[2].res.ok
    /\ global = Some(inits[1].layer)

\* ------------------------------------------------------------------------
\* FallLog::on_event with a writer that can fail: a write call returns an
\* io::Error, or the writer panics inside write
\* ------------------------------------------------------------------------
\* write_all returns Err: the first write call of this line fails (closed
\* pipe, full disk), having taken no byte.  `let _ =` discards the error, the
\* guard is dropped, buf.clear() runs and on_event returns
WriteErr(t) ==
    /\ th[t].pc = "locked"
    /\ th[t].pos = 0
    /\ lock' = IF lock = t THEN NoThread ELSE lock
    /\ th' = [th EXCEPT ![t].pc = "idle", ![t].buf = <<>>, ![t].pos = 0]
    /\ UNCHANGED <<layer, wout, done, poisoned, nested>>
    /\ UNCHANGED notLog

\* the writer panics inside the first write call of this line: the unwinding
\* drops the MutexGuard, which poisons the mutex; buf.clear() is not reached
WritePanic(t) ==
    /\ th[t].pc = "locked"
    /\ th[t].pos = 0
    /\ lock' = IF lock = t THEN NoThread ELSE lock
    /\ poisoned' = TRUE
    /\ th' = [th EXCEPT ![t].pc = "panicked_in_write"]
    /\ UNCHANGED <<layer, wout, done, nested>>
    /\ UNCHANGED notLog

\* self.writer.lock() on a poisoned mutex returns Err(PoisonError), and
\* .expect("Writer lock failed") panics; the guard inside the error is
\* dropped by the unwinding
LockPoisoned(t) ==
    /\ th[t].pc = "formatted"
    /\ lock = NoThread
    /\ poisoned
    /\ th' = [th EXCEPT ![t].pc = "panicked_in_lock", ![t].locks = @ + 1]
    /\ UNCHANGED <<layer, lock, wout, done, poisoned, nested>>
    /\ UNCHANGED notLog

FailInit == LogInit

FailNext ==
    \E t \in Threads :
        \/ Format(t, LogEventLevels)
        \/ Lock(t)
        \/ Write(t)
        \/ Unlock(t)
        \/ WriteErr(t)
        \/ WritePanic(t)
        \/ LockPoisoned(t)

SpecFail == FailInit /\ [][FailNext]_vars

\* C11: a logging failure never crashes the emitting task: on a poisoned
\* writer mutex, or when the writer returns an I/O error, on_event drops the
\* line and returns normally, so no thread ever panics inside on_event's
\* lock of the writer.
C11_LoggingFailureNeverPanics ==
    \A t \in Threads : th[t].pc # "panicked_in_lock"

\* the I/O error half: on_event never panics while it holds the writer, as
\* long as the writer itself does not panic
IoErrorIsSwallowed ==
    ~poisoned => \A t \in Threads : th[t].pc \in {"idle", "formatted", "locked"}

\* ------------------------------------------------------------------------
\* The layer's span callbacks on one thread: new_span, on_record, on_event,
\* with extension fields configured and arbitrary attribute names and values
\* ------------------------------------------------------------------------
MaxLines == 1

\* the layers of this section: FallLog::new as it is, and with two
\* add_field calls
SpanLayers ==
    { FallLogNew(AppName, "stdout"),
      add_field(add_field(FallLogNew(AppName, "stdout"), "user"), "tenant") }

\* attributes of the spans application code creates: a context turned into a
\* span; a span without fields; a span! naming an extension field, whose
\* value holds a comma, and a field the layer was never told about
SpanInputs ==
    { SpanAttrs(OpenTraceNew(U64(<<10, 1, 11, 2>>), U64(<<12, 13>>), Some(U64(<<7, 7>>)))),
      <<>>,
      << <<"user", <<"u", ",", "1">> >>, <<"other", <<"x">> >> >> }

\* the (name, value) pairs application code records on a span later
RecordInputs ==
    { <<PADDING, <<"p">> >>, <<"user", <<"a", ",", "b">> >>, <<"other", <<"x">> >> }

\* span!(..) and span.enter(): FallLog::new_span stores the ExtendedLog
OnNewSpan ==
    /\ Len(stack) < MaxDepth
    /\ nextSpan <= MaxSpans
    /\ enabled(layer, INFO)
    /\ \E attrs \in SpanInputs :
          /\ spans' = Put(spans, nextSpan, new_span(layer.extend_fields, attrs))
          /\ last' = [op |-> "new_span", id |-> nextSpan, attrs |-> attrs]
    /\ stack' = Push(stack, nextSpan)
    /\ nextSpan' = nextSpan + 1
    /\ UNCHANGED <<layer, client>>
    /\ UNCHANGED notB3

\* span.record(name, value) on a live span: FallLog::on_record
OnRecord ==
    /\ \E id \in DOMAIN spans, v \in RecordInputs :
          /\ spans' = [spans EXCEPT ![id] = RecordAll(@, <<v>>)]
          /\ last' = [op |-> "record", id |-> id, name |-> v[1], value |-> v[2],
                      before |-> spans[id]]
    /\ UNCHANGED <<layer, stack, nextSpan, client>>
    /\ UNCHANGED notB3

\* an enabled event on this thread: FallLog::on_event writes its line
OnEvent ==
    /\ Len(written) < MaxLines
    /\ enabled(layer, INFO)
    /\ written' = Append(written,
           [by |-> NoReq, level |-> INFO, own |-> CurrentInfo(stack, spans),
            line |-> EventLine(layer, NowText, INFO, Some(<<"m">>),
                               <<"h", "i">>, CurrentInfo(stack, spans))])
    /\ UNCHANGED <<substrateVars, running, task, returned>>
    /\ UNCHANGED notWeb

SpanInit ==
    /\ WebIdle
    /\ LogIdle
    /\ InitIdle
    /\ SubstrateIdle
    /\ B3Idle
    /\ layer \in SpanLayers

SpanNext ==
    \/ OnNewSpan
    \/ OnRecord
    \/ CloseSpan

SpecSpan == SpanInit /\ [][SpanNext]_vars

\* the same spans with events emitted under them
LineInit == SpanInit

LineNext ==
    \/ OnNewSpan
    \/ OnRecord
    \/ OnEvent
    \/ CloseSpan

SpecLine == LineInit /\ [][LineNext]_vars

\* the text between the first '[' of a line and the first ']' after it
RECURSIVE UpTo(_, _)
UpTo(s, c) == IF s = <<>> \/ Head(s) = c THEN <<>> ELSE <<Head(s)>> \o UpTo(Tail(s), c)

RECURSIVE After(_, _)
After(s, c) == IF s = <<>> THEN <<>> ELSE IF Head(s) = c THEN Tail(s) ELSE After(Tail(s), c)

Bracket(line) == UpTo(After(line, "["), "]")

Commas(s) == Cardinality({k \in DOMAIN s : s[k] = ","})

\* C12: in every emitted line the bracketed segment holds exactly len(keys)
\* commas when a span is current, whatever fields are populated and whatever
\* values were recorded; with no current span it is exactly `<app_name>,`.
C12_CommaCount ==
    \A k \in DOMAIN written :
        IF written[k].own.some
        THEN Commas(Bracket(written[k].line)) = Len(written[k].own.val.keys)
        ELSE Bracket(written[k].line) = layer.app_name \o <<",">>

\* the stored values of an ExtendedLog hold no comma
CommaFree(info) ==
    \A n \in DOMAIN info.data : Commas(info.data[n]) = 0

\* the count holds for every line rendered from comma-free values, whatever
\* subset of the fields is populated
CommaCountOfCommaFreeValues ==
    \A k \in DOMAIN written :
        IF written[k].own.some
        THEN CommaFree(written[k].own.val)
             => Commas(Bracket(written[k].line)) = Len(written[k].own.val.keys)
        ELSE Bracket(written[k].line) = layer.app_name \o <<",">>

\* the keys of every ExtendedLog the layer creates
DeclaredKeys == <<TRACE_ID, SPAN_ID, PARENT_SPAN_ID, PADDING>> \o layer.extend_fields

\* the value the last pair named n carries in a list of (name, value) pairs
RECURSIVE LastValue(_, _, _)
LastValue(vals, n, acc) ==
    IF vals = <<>> THEN acc
    ELSE LastValue(Tail(vals), n, IF Head(vals)[1] = n THEN Some(Head(vals)[2]) ELSE acc)

\* C17: each live span's ExtendedLog has keys = [trace_id, span_id,
\* parent_span_id, padding] followed by the configured extend_fields in
\* configuration order, unchanged by on_record; every name in data is in
\* keys; new_span and on_record store a value only under names in keys,
\* on_record overwriting the previous value, and leave data as it was for
\* any other name.
C17_ExtendedLogShape ==
    /\ \A id \in DOMAIN spans :
          /\ spans[id].keys = DeclaredKeys
          /\ DOMAIN spans[id].data \subseteq Range(spans[id].keys)
    /\ (last.op = "new_span" /\ last.id \in DOMAIN spans) =>
          \A n \in Range(DeclaredKeys) \cup {a[1] : a \in Range(last.attrs)} :
              LET v == LastValue(last.attrs, n, None)
                  d == spans[last.id].data
              IN  IF n \in Range(DeclaredKeys) /\ v.some
                  THEN n \in DOMAIN d /\ d[n] = v.val
                  ELSE n \notin DOMAIN d
    /\ (last.op = "record" /\ last.id \in DOMAIN spans) =>
          LET b == last.before
              a == spans[last.id]
          IN  /\ a.keys = b.keys
              /\ IF last.name \in Range(b.keys)
                 THEN /\ a.data[last.name] = last.value
                      /\ \A n \in Range(b.keys) \ {last.name} :
                            /\ n \in DOMAIN a.data <=> n \in DOMAIN b.data
                            /\ n \in DOMAIN b.data => a.data[n] = b.data[n]
                 ELSE /\ DOMAIN a.data = DOMAIN b.data
                      /\ \A n \in DOMAIN b.data : a.data[n] = b.data[n]

\* on_record has overwritten the value of an extension field on a span of a
\* layer with two extension fields
C17_Witness ==
    /\ Len(layer.extend_fields) = 2
    /\ last.op = "record"
    /\ last.id \in DOMAIN spans
    /\ last.name = "user"
    /\ "user" \in DOMAIN last.before.data
    /\ last.before.data["user"] # last.value
    /\ spans[last.id].data["user"] = last.value

\* ------------------------------------------------------------------------
\* u64_hex and the constructors of OpenTrace as pure functions
\* ------------------------------------------------------------------------
\* the u64 values rendered: every value with one non-zero nibble, every
\* value 2^(4n) - 1 (zero and u64::MAX among them)
HexInputs ==
    {[k \in 1..U64Nibbles |-> IF k = p THEN v ELSE 0] : p \in 1..U64Nibbles, v \in 1..15}
    \cup {[k \in 1..U64Nibbles |-> IF k > p THEN 15 ELSE 0] : p \in 0..U64Nibbles}

\* u64_hex(i)
RenderId ==
    /\ last.op = "u64"
    /\ last' = [op |-> "hex", i |-> last.i, text |-> u64_hex(last.i)]
    /\ UNCHANGED <<substrateVars, client>>
    /\ UNCHANGED notB3

\* OpenTrace::new(trace_id, span_id, parent_span_id)
NewContext ==
    /\ last.op = "ids"
    /\ last' = [op |-> "new", ids |-> last,
                ctx |-> OpenTraceNew(last.trace_id, last.span_id, last.parent_span_id)]
    /\ UNCHANGED <<substrateVars, client>>
    /\ UNCHANGED notB3

\* OpenTrace::default()
DefaultContext ==
    /\ last.op = "rand"
    /\ last' = [op |-> "default", rnd |-> last.rnd, ctx |-> OpenTraceDefault(last.rnd)]
    /\ UNCHANGED <<substrateVars, client>>
    /\ UNCHANGED notB3

HexInit ==
    /\ WebIdle
    /\ LogIdle
    /\ InitIdle
    /\ SubstrateIdle
    /\ client = FallClientNew
    /\ layer = FallLogNew(AppName, "stdout")
    /\ last \in {[op |-> "u64", i |-> i] : i \in HexInputs}
                \cup {[op |-> "ids", trace_id |-> t, span_id |-> sp, parent_span_id |-> p] :
                        t \in IdPool, sp \in IdPool, p \in {None} \cup {Some(i) : i \in IdPool}}
                \cup {[op |-> "rand", rnd |-> i] : i \in HexInputs}
                \cup {[op |-> "request", req |-> r, rnd |-> rnd] :
                        r \in InboundRequests, rnd \in RandPool}

HexNext ==
    \/ RenderId
    \/ NewContext
    \/ DefaultContext
    \/ Decode

SpecHex == HexInit /\ [][HexNext]_vars

\* /^[0-9a-f]{16}$/
IsId16(s) ==
    /\ Len(s) = 16
    /\ \A k \in 1..Len(s) : s[k] \in Range(HexChars)

\* C13: for every u64 i, u64_hex(i) has length exactly 16 and only lowercase
\* hex digits, zero-padded on the left; hence every id of a context built by
\* OpenTrace::new, OpenTrace::default or from_req is 16 characters, a short
\* header value cd giving 00000000000000cd.
C13_HexLength ==
    /\ last.op = "hex" =>
          /\ IsId16(last.text)
          /\ LET n == Len(LowerHex(last.i))
             IN  /\ SubSeq(last.text, 16 - n + 1, 16) = LowerHex(last.i)
                 /\ \A k \in 1..(16 - n) : last.text[k] = "0"
    /\ last.op \in {"new", "default", "decode"} =>
          /\ IsId16(last.ctx.trace_id)
          /\ IsId16(last.ctx.span_id)
          /\ last.ctx.parent_span_id = <<>> \/ IsId16(last.ctx.parent_span_id)
    /\ (last.op = "decode" /\ HeaderGet(last.req, "X-B3-SpanId") = Some(<<"c", "d">>)) =>
          last.ctx.span_id = Repeat("0", 14) \o <<"c", "d">>

\* from_req was given the short span header cd and rendered it as 16 digits
C13_Witness ==
    /\ last.op = "decode"
    /\ HeaderGet(last.req, "X-B3-SpanId") = Some(<<"c", "d">>)
    /\ last.ctx.span_id = Repeat("0", 14) \o <<"c", "d">>
    /\ Len(last.ctx.trace_id) = 16

\* ------------------------------------------------------------------------
\* The default post_response as a pure function
\* ------------------------------------------------------------------------
PostStatuses == {200, NOT_FOUND, 418, INTERNAL_SERVER_ERROR}

\* what fall_log::current_trace_id() may return when post_response runs
PostTraceIds == {None} \cup {Some(u64_hex(i)) : i \in IdPool}

\* bodies of the responses post_response is given: bodies of handlers, and
\* error bodies built earlier by error_response
PostBodies ==
    {[raw |-> x] : x \in {"ok", "no route", "", "{}"}}
    \cup {error_response(e, t).body :
            e \in PreErrors \cup {IO_ERROR("disk"), REMOTE_ERROR(NOT_FOUND, "gone")},
            t \in {None, Some(u64_hex(U64(<<12, 13>>)))}}

\* hd.post_response(r)
PostResponse ==
    /\ last.op = "response"
    /\ last' = [op |-> "post", res |-> last.res, tid |-> last.tid,
                out |-> post_response(last.res, last.tid)]
    /\ UNCHANGED <<substrateVars, client>>
    /\ UNCHANGED notB3

PostInit ==
    /\ WebIdle
    /\ LogIdle
    /\ InitIdle
    /\ SubstrateIdle
    /\ client = FallClientNew
    /\ layer = FallLogNew(AppName, "stdout")
    /\ last \in {[op |-> "response", res |-> [status |-> st, body |-> b], tid |-> t] :
                    st \in PostStatuses, b \in PostBodies, t \in PostTraceIds}

PostNext == PostResponse

SpecPost == PostInit /\ [][PostNext]_vars

\* the error body of a status: its code and its canonical reason text
IsCanonicalBody(b, status) ==
    /\ DOMAIN b = {"trace_id", "status", "message"}
    /\ b.status = status
    /\ b.message = StatusText(status)

\* C14: the default post_response is the identity on every response whose
\* status is not 404; a 404 response comes back with status 404 and the
\* canonical error body of that status in place of its body.
C14_DefaultPostResponse ==
    last.op = "post" =>
        IF last.res.status # NOT_FOUND
        THEN last.out = last.res
        ELSE /\ last.out.status = NOT_FOUND
             /\ IsCanonicalBody(last.out.body, NOT_FOUND)
             /\ last.out.body.trace_id = last.tid

\* a 404 response with a body of its own went through post_response and
\* came back with the canonical body
C14_Witness ==
    /\ last.op = "post"
    /\ last.res = [status |-> NOT_FOUND, body |-> [raw |-> "no route"]]
    /\ last.out.status = NOT_FOUND
    /\ IsCanonicalBody(last.out.body, NOT_FOUND)

\* ------------------------------------------------------------------------
\* Further properties of the B3 codec (SpecCodec)
\* ------------------------------------------------------------------------
\* C15: when the context written to an outbound request has an empty
\* parent_span_id the X-B3-ParentSpanId header is omitted; the header is
\* present only when parent_span_id is non-empty.
C15_ParentHeaderOmittedWhenEmpty ==
    last.op = "trip" =>
        (HeaderGet(last.req, "X-B3-ParentSpanId").some <=> last.ctx.parent_span_id # <<>>)

\* a non-empty parent_span_id is written as the X-B3-ParentSpanId header,
\* next to the trace and span headers
ParentHeaderCarriesParent ==
    (last.op = "trip" /\ last.ctx.parent_span_id # <<>>) =>
        /\ HeaderGet(last.req, "X-B3-ParentSpanId") = Some(last.ctx.parent_span_id)
        /\ HeaderGet(last.req, "X-B3-TraceId") = Some(last.ctx.trace_id)
        /\ HeaderGet(last.req, "X-B3-SpanId") = Some(last.ctx.span_id)

\* ------------------------------------------------------------------------
\* The events of the middleware itself (SpecWeb)
\* ------------------------------------------------------------------------
PreRequestDenied ==
    <<"p", "r", "e", "_", "r", "e", "q", "u", "e", "s", "t", " ",
      "d", "e", "n", "i", "e", "d">>

Contains(s, part) ==
    \E i \in 1..(Len(s) - Len(part) + 1) : SubSeq(s, i, i + Len(part) - 1) = part

\* C16: whenever pre_request rejects a request, the output holds an INFO
\* event with message "pre_request denied" for that request, emitted before
\* the rejection response is returned.
C16_RejectionIsLogged ==
    (returned.some /\ returned.val.rejected.some) =>
        \E k \in DOMAIN written :
            /\ written[k].by = returned.val.req
            /\ written[k].level = INFO
            /\ Contains(written[k].line, PreRequestDenied)

\* the step in which a request's future completes writes no line: the
\* middleware emits no event of its own
CompletionWritesNothing ==
    [][returned' # returned => written' = written]_vars

\* ------------------------------------------------------------------------
\* FallLog::on_event re-entered on its own thread: the Debug impl of an
\* event's message emits an event while the outer call formats
\* ------------------------------------------------------------------------
\* the message of the event emitted from inside the formatting of the k-th
\* event of thread t
InnerMessage(t, k) == <<"i", "n", HexChars[t + 1], HexChars[k + 1]>>

InnerLineOf(t, k, level) ==
    EventLine(layer, NowText, level, Some(<<"m">>), InnerMessage(t, k), None)

\* a buffer choice that hands out BUF whether or not it is borrowed
BufferForShared(borrowed, BUF) == BUF

\* the buffer on_event writes into: the thread's BUF when try_borrow_mut
\* succeeds, a new empty String when BUF is already borrowed
BufferFor(borrowed, BUF) == IF borrowed THEN <<>> ELSE BUF

\* the outer on_event borrows BUF and formats up to some point j of the
\* message, whose Debug impl then emits an enabled event: the inner on_event
\* finds BUF borrowed and assembles its whole line in its own buffer
FormatNested(t, lvls) ==
    /\ th[t].pc = "idle"
    /\ nested[t] = <<>>
    /\ Len(th[t].tried) < EventsPerThread
    /\ \E level \in lvls, j \in 0..Len(Message(t, 1)) :
          LET k    == Len(th[t].tried) + 1
              line == LineOf(t, k, level)
              cut  == Len(line) - 1 - (Len(Message(t, k)) - j)
          IN  /\ enabled(layer, level)
              /\ th' = [th EXCEPT ![t].pc = "recording",
                                  ![t].tried = Append(@, level),
                                  ![t].buf = BufferFor(FALSE, @) \o SubSeq(line, 1, cut)]
              /\ nested' = [nested EXCEPT ![t] =
                     << [pc |-> "formatted", pos |-> 0, level |-> level,
                         rest |-> SubSeq(line, cut + 1, Len(line)),
                         buf |-> BufferFor(TRUE, th[t].buf \o SubSeq(line, 1, cut))
                                 \o InnerLineOf(t, k, level)] >>]
    /\ UNCHANGED <<layer, lock, wout, done, poisoned>>
    /\ UNCHANGED notLog

\* the inner call's self.writer.lock()
NestedLock(t) ==
    /\ nested[t] # <<>>
    /\ nested[t][1].pc = "formatted"
    /\ lock = NoThread
    /\ ~poisoned
    /\ lock' = t
    /\ nested' = [nested EXCEPT ![t][1].pc = "locked"]
    /\ UNCHANGED <<layer, th, wout, done, poisoned>>
    /\ UNCHANGED notLog

\* one write call of the inner call's write_all
NestedWrite(t) ==
    /\ nested[t] # <<>>
    /\ nested[t][1].pc = "locked"
    /\ nested[t][1].pos < Len(nested[t][1].buf)
    /\ \E n \in {1, Len(nested[t][1].buf) - nested[t][1].pos} :
          /\ wout' = wout \o SubSeq(nested[t][1].buf, nested[t][1].pos + 1,
                                    nested[t][1].pos + n)
          /\ nested' = [nested EXCEPT ![t][1].pos = @ + n]
    /\ UNCHANGED <<layer, th, lock, done, poisoned>>
    /\ UNCHANGED notLog

\* the inner write_all returned: guard dropped, its buffer cleared, the inner
\* on_event returns into the Debug impl
NestedUnlock(t) ==
    /\ nested[t] # <<>>
    /\ nested[t][1].pc = "locked"
    /\ nested[t][1].pos = Len(nested[t][1].buf)
    /\ lock' = IF lock = t THEN NoThread ELSE lock
    /\ done' = Append(done, [t |-> t, k |-> Len(th[t].tried),
                             level |-> nested[t][1].level, inner |-> TRUE])
    /\ nested' = [nested EXCEPT ![t][1].pc = "returned", ![t][1].buf = <<>>,
                                ![t][1].pos = 0]
    /\ UNCHANGED <<layer, th, wout, poisoned>>
    /\ UNCHANGED notLog

\* the outer call goes on: the rest of the message and the newline
FormatResume(t) ==
    /\ th[t].pc = "recording"
    /\ nested[t] # <<>>
    /\ nested[t][1].pc = "returned"
    /\ th' = [th EXCEPT ![t].pc = "formatted", ![t].buf = @ \o nested[t][1].rest]
    /\ nested' = [nested EXCEPT ![t] = <<>>]
    /\ UNCHANGED <<layer, lock, wout, done, poisoned>>
    /\ UNCHANGED notLog

NestInit == LogInit

\* thread 1 emits events whose messages log while they are formatted, and
\* plain events; thread 2 emits plain events and contends for the writer
NestNext ==
    \/ FormatNested(1, {INFO})
    \/ NestedLock(1)
    \/ NestedWrite(1)
    \/ NestedUnlock(1)
    \/ FormatResume(1)
    \/ \E t \in 1..2 :
          \/ Format(t, {INFO})
          \/ Lock(t)
          \/ Write(t)
          \/ Unlock(t)

SpecNest == NestInit /\ [][NestNext]_vars

IsInner(e) == "inner" \in DOMAIN e

\* the lines of the calls of on_event that returned, in that order
NestDoneText ==
    Concat([k \in DOMAIN done |->
               IF IsInner(done[k]) THEN InnerLineOf(done[k].t, done[k].k, done[k].level)
               ELSE LineOf(done[k].t, done[k].k, done[k].level)])

\* the part of its line the call holding the writer has written so far
NestPartialText ==
    IF lock = NoThread THEN <<>>
    ELSE IF nested[lock] # <<>> /\ nested[lock][1].pc = "locked"
         THEN SubSeq(nested[lock][1].buf, 1, nested[lock][1].pos)
         ELSE SubSeq(th[lock].buf, 1, th[lock].pos)

\* C18: an event fired on the same thread while on_event formats another
\* event uses a fresh buffer, never waits for a lock its own thread holds,
\* and writes its own complete line; the outer line is afterwards written
\* complete and unaltered by the inner text; BUF is empty once the outer
\* call has returned.
C18_ReentrantOnEvent ==
    /\ wout = NestDoneText \o NestPartialText
    /\ \A t \in Threads :
          /\ nested[t] # <<>> =>
                /\ th[t].pc = "recording"
                /\ lock = t => nested[t][1].pc = "locked"
                /\ nested[t][1].pc \in {"formatted", "locked"} =>
                      nested[t][1].buf
                          = InnerLineOf(t, Len(th[t].tried), nested[t][1].level)
          /\ th[t].pc \in {"formatted", "locked"} =>
                th[t].buf = LineOf(t, Len(th[t].tried), th[t].tried[Len(th[t].tried)])
          /\ th[t].pc = "idle" => th[t].buf = <<>> /\ nested[t] = <<>>
    /\ \A a, b \in DOMAIN done :
          (/\ done[a].t = done[b].t
           /\ done[a].k = done[b].k
           /\ IsInner(done[a])
           /\ ~IsInner(done[b])) => a < b

\* thread 1's first event was formatted with an inner event in the middle
\* of its message; both calls returned, the inner line first, and BUF is
\* empty
C18_Witness ==
    /\ Len(done) >= 2
    /\ done[1] = [t |-> 1, k |-> 1, level |-> INFO, inner |-> TRUE]
    /\ done[2] = [t |-> 1, k |-> 1, level |-> INFO]
    /\ th[1].pc = "idle"
    /\ th[1].buf = <<>>
    /\ SubSeq(wout, 1, Len(InnerLineOf(1, 1, INFO)) + Len(LineOf(1, 1, INFO)))
          = InnerLineOf(1, 1, INFO) \o LineOf(1, 1, INFO)

\* ------------------------------------------------------------------------
\* The worker thread between requests: events logged by code that runs
\* outside every request future
\* ------------------------------------------------------------------------
\* the requests whose future was polled and has neither completed nor been
\* dropped
InFlightReqs == {r \in Reqs : task[r].pc \in {"pre", "inner"}}

EndedReqs == {r \in Reqs : task[r].pc \in {"done", "cancelled"}}

\* the worker logs an enabled event while it polls no request future
IdleEvent ==
    /\ running = NoReq
    /\ Len(written) < MaxEvents
    /\ \E level \in WebEventLevels :
          /\ enabled(layer, level)
          /\ written' = Append(written,
                 [by |-> NoReq, level |-> level, own |-> None,
                  quiet |-> InFlightReqs = {}, after |-> EndedReqs # {},
                  line |-> EventLine(layer, NowText, level, Some(<<"m">>),
                                     <<"h", "i">>, CurrentInfo(stack, spans))])
    /\ UNCHANGED <<layer, spans, stack, nextSpan, running, task, returned>>
    /\ UNCHANGED notWeb

ScopeInit == WebInit

ScopeNext ==
    \/ IdleEvent
    \/ \E r \in Reqs :
          \/ Call(r)
          \/ Yield(r)
          \/ Resume(r)
          \/ PreOk(r)
          \/ PreErr(r)
          \/ InnerOk(r)
          \/ InnerErr(r)
          \/ Cancel(r)

SpecScope == ScopeInit /\ [][ScopeNext]_vars

\* C19: the span scope is released however a request ends: once a request
\* has yielded its response, returned an error or been cancelled at an
\* await, its span is no longer entered on the worker thread; while no
\* request is in flight no span is current, and an event logged then has
\* the bracket `<app_name>,`.
C19_SpanReleased ==
    /\ \A r \in EndedReqs :
          /\ \A k \in DOMAIN stack : stack[k].id # task[r].span \/ task[r].span = NoSpan
          /\ task[r].span \notin DOMAIN spans
    /\ InFlightReqs = {} => stack = <<>> /\ ~Current(stack).some
    /\ \A k \in DOMAIN written :
          (written[k].by = NoReq /\ written[k].quiet) =>
              Bracket(written[k].line) = layer.app_name \o <<",">>

\* two requests that each had a span have ended, one of them cancelled at an
\* await, and an event logged after that has the bracket without a span
C19_Witness ==
    /\ EndedReqs = Reqs
    /\ \E r \in Reqs : task[r].pc = "cancelled" /\ task[r].span # NoSpan
    /\ \E r \in Reqs : task[r].pc = "done" /\ task[r].span # NoSpan
    /\ \E k \in DOMAIN written :
          /\ written[k].by = NoReq
          /\ written[k].quiet
          /\ written[k].after
          /\ Bracket(written[k].line) = layer.app_name \o <<",">>

====
